---- MODULE Spec2Model ----
(***************************************************************************)
(* Voice turn-taking of the chat application: the ChatInterface component  *)
(* (speech recognition, /chat round trips, speech synthesis) and the       *)
(* ChatAvatar component (MediaRecorder capture, /voice round trips,        *)
(* AudioContext playback) that ChatInterface renders while voice mode is   *)
(* on.                                                                     *)
(*                                                                         *)
(* One action is one browser task: an event handler together with the      *)
(* React re-render and the effects (and effect cleanups) it causes, and    *)
(* with the microtasks (await continuations) that run before the next      *)
(* task.  A value a callback reads from its closure is stored with the     *)
(* object that holds the callback: a hook callback sees the state of the   *)
(* render that created it, not the current state.                          *)
(***************************************************************************)
EXTENDS Integers, Sequences, FiniteSets, TLC

\* Bounds of the model.
MaxMounts == 2      \* times voice mode is entered: ChatAvatar instances
MaxSessions == 3    \* startVoice calls, over all ChatAvatar instances
MaxRequests == 2    \* /chat requests dispatched by processMessage

Mounts == 1..MaxMounts
Cycles == 1..MaxSessions

VARIABLES
    \* ChatInterface: useState
    messages, inputValue, isVoiceMode, isListening, isSpeaking, recognitionActive,
    \* ChatInterface: useRef and the browser objects behind them
    recognitionRef,       \* closure (recognitionActive, isVoiceMode) of the current recognition object
    speechSynthesisRef,   \* TRUE once an utterance was stored
    synth,                \* window.speechSynthesis: "idle", "pending", "speaking"
    recog,                \* recognition objects that were started, one per enable
    chat,                 \* /chat requests in flight
    nextId,               \* number of /chat requests dispatched so far, plus one
    errorToasts,          \* destructive toasts shown so far
    \* ChatAvatar
    mounts,               \* ChatAvatar instances created so far; the last one is mounted iff isVoiceMode
    avatar,               \* per instance: refs, recorder, streams, timers, async position
    avIsListening, avIsSpeaking   \* useState of the mounted ChatAvatar instance

vars == <<messages, inputValue, isVoiceMode, isListening, isSpeaking, recognitionActive,
          recognitionRef, speechSynthesisRef, synth, recog, chat, nextId, errorToasts,
          mounts, avatar, avIsListening, avIsSpeaking>>

ciState == <<messages, inputValue, isVoiceMode, isListening, isSpeaking, recognitionActive,
             recognitionRef, speechSynthesisRef, synth, recog, chat, nextId, errorToasts>>

\* The ChatAvatar instance that is mounted, 0 when none is.
mounted == IF isVoiceMode THEN mounts ELSE 0

----------------------------------------------------------------------------
\* Values

Texts == {"", " ", "hi"}

\* String.prototype.trim on the texts of the model.
Trim(s) == IF s = " " THEN "" ELSE s

Greeting == [isUser |-> FALSE, content |-> "greeting", req |-> 0]

NoAvatar ==
    [pc |-> "none", cyc |-> 0, mediaRecorderRef |-> 0, streamRef |-> 0, live |-> {},
     timers |-> {}, audioChunksRef |-> <<>>, playing |-> {},
     sentMounted |-> FALSE]

NoRecog == [rA |-> FALSE, vm |-> FALSE, phase |-> "none"]

RECURSIVE Sum(_)
Sum(s) == IF s = <<>> THEN 0 ELSE Head(s) + Sum(Tail(s))

----------------------------------------------------------------------------
\* The state after the first render of ChatInterface, in a browser that has
\* SpeechRecognition, speechSynthesis and mediaDevices.getUserMedia.
Init ==
    /\ messages = <<Greeting>>
    /\ inputValue = ""
    /\ isVoiceMode = FALSE
    /\ isListening = FALSE
    /\ isSpeaking = FALSE
    /\ recognitionActive = FALSE
    /\ recognitionRef = [rA |-> FALSE, vm |-> FALSE]
    /\ speechSynthesisRef = FALSE
    /\ synth = "idle"
    /\ recog = [m \in Mounts |-> NoRecog]
    /\ chat = {}
    /\ nextId = 1
    /\ errorToasts = 0
    /\ mounts = 0
    /\ avatar = [m \in Mounts |-> NoAvatar]
    /\ avIsListening = FALSE
    /\ avIsSpeaking = FALSE

----------------------------------------------------------------------------
\* ChatAvatar

\* setIsListening / setIsSpeaking called by instance m: React drops the update
\* of an instance that is no longer mounted.
SetAvListening(m, v) == avIsListening' = IF m = mounted THEN v ELSE avIsListening
SetAvSpeaking(m, v) == avIsSpeaking' = IF m = mounted THEN v ELSE avIsSpeaking

\* startVoice calls made so far.
RECURSIVE CallsUpTo(_)
CallsUpTo(m) == IF m = 0 THEN 0 ELSE avatar[m].cyc + CallsUpTo(m - 1)
Sessions == CallsUpTo(MaxMounts)

\* startVoice up to its first await: getUserMedia is called and pending.
startVoice(a) == [a EXCEPT !.pc = "gum", !.cyc = a.cyc + 1]

\* stopVoice forgetting the stream without stopping its tracks.
stopVoiceNoRelease(a) ==
    [a EXCEPT !.pc = IF a.mediaRecorderRef # 0 /\ a.pc = "rec" THEN "stopped" ELSE a.pc,
              !.streamRef = 0]

\* stopVoice: stop the recorder held by mediaRecorderRef (a recording recorder
\* becomes inactive and queues the task that fires dataavailable and stop;
\* stop() on an inactive recorder does nothing), stop the tracks of the stream
\* held by streamRef and clear streamRef.
stopVoice(a) ==
    [a EXCEPT !.pc = IF a.mediaRecorderRef # 0 /\ a.pc = "rec" THEN "stopped" ELSE a.pc,
              !.live = a.live \ {a.streamRef},
              !.streamRef = 0]

\* getUserMedia settles; on success the rest of startVoice runs.
GetUserMediaSettles(m, ok) ==
    /\ avatar[m].pc = "gum"
    /\ IF ok
       THEN /\ avatar' = [avatar EXCEPT ![m] =
                    [@ EXCEPT !.streamRef = avatar[m].cyc,
                              !.live = @ \cup {avatar[m].cyc},
                              !.mediaRecorderRef = avatar[m].cyc,
                              !.audioChunksRef = <<>>,
                              !.pc = "rec",
                              !.timers = @ \cup {avatar[m].cyc}]]
            /\ SetAvListening(m, TRUE)
       ELSE /\ avatar' = [avatar EXCEPT ![m].pc = "idle"]
            /\ UNCHANGED avIsListening
    /\ UNCHANGED <<ciState, mounts, avIsSpeaking>>

\* The timer with its test of recorder.state inverted: it never stops a
\* recorder that is recording.
AutoStopTimerInverted(m, k) ==
    /\ k \in avatar[m].timers
    /\ avatar' = [avatar EXCEPT ![m].timers = @ \ {k}]
    /\ UNCHANGED <<ciState, mounts, avIsListening, avIsSpeaking>>

\* The timer stopping whatever recorder mediaRecorderRef holds, instead of the
\* recorder of its own startVoice call.
AutoStopTimerShared(m, k) ==
    /\ k \in avatar[m].timers
    /\ avatar' = [avatar EXCEPT ![m] =
            [@ EXCEPT !.timers = @ \ {k},
                      !.pc = IF avatar[m].pc = "rec" THEN "stopped" ELSE @]]
    /\ UNCHANGED <<ciState, mounts, avIsListening, avIsSpeaking>>

\* The 4 s timer of the recorder of cycle k: stops that recorder unless inactive.
AutoStopTimer(m, k) ==
    /\ k \in avatar[m].timers
    /\ avatar' = [avatar EXCEPT ![m] =
            [@ EXCEPT !.timers = @ \ {k},
                      !.pc = IF avatar[m].pc = "rec" /\ avatar[m].cyc = k
                             THEN "stopped" ELSE @]]
    /\ UNCHANGED <<ciState, mounts, avIsListening, avIsSpeaking>>

\* The task a stopped recorder queues: it fires dataavailable with the one
\* blob of the session (recorder.ondataavailable pushes it) and then stop
\* (recorder.onstop, up to the fetch of sendVoiceToAI: the blob sent is the
\* concatenation of audioChunksRef).
OnStop(m, size) ==
    /\ avatar[m].pc = "stopped"
    /\ SetAvListening(m, FALSE)
    /\ avatar' = [avatar EXCEPT ![m] =
            [@ EXCEPT !.audioChunksRef = Append(@, size),
                      !.sentMounted = (m = mounted),
                      !.pc = "voice"]]
    /\ UNCHANGED <<ciState, mounts, avIsSpeaking>>

\* The /voice fetch settles: sendVoiceToAI from the fetch on, and the rest of
\* onstop when no audio is played.
VoiceSettles(m, outcome) ==
    /\ avatar[m].pc = "voice"
    /\ CASE outcome = "audio" ->
              /\ SetAvSpeaking(m, TRUE)
              /\ avatar' = [avatar EXCEPT ![m] =
                      [@ EXCEPT !.sentMounted = FALSE, !.pc = "decode"]]
         [] outcome = "noaudio" ->
              /\ Sessions < MaxSessions
              /\ UNCHANGED avIsSpeaking
              /\ avatar' = [avatar EXCEPT ![m] =
                      startVoice([@ EXCEPT !.sentMounted = FALSE])]
         [] outcome = "fail" ->
              /\ Sessions < MaxSessions
              /\ SetAvSpeaking(m, FALSE)
              /\ avatar' = [avatar EXCEPT ![m] =
                      startVoice([@ EXCEPT !.sentMounted = FALSE])]
    /\ UNCHANGED <<ciState, mounts, avIsListening>>

\* playAudio without its catch, resolving on source.onended: after a failed
\* decode nothing clears the flag and onstop never reaches startVoice.
PlayAudioDecodedHangs(m, ok) ==
    /\ avatar[m].pc = "decode"
    /\ Sessions < MaxSessions
    /\ IF ok
       THEN avatar' = [avatar EXCEPT ![m] =
                    startVoice([@ EXCEPT !.playing = @ \cup {avatar[m].cyc}])]
       ELSE avatar' = [avatar EXCEPT ![m].pc = "idle"]
    /\ UNCHANGED <<ciState, mounts, avIsListening, avIsSpeaking>>

\* playAudio from its awaits on (decoding), then the rest of sendVoiceToAI
\* and of onstop: the promise of playAudio resolves when source.start returns.
PlayAudioDecoded(m, ok) ==
    /\ avatar[m].pc = "decode"
    /\ Sessions < MaxSessions
    /\ IF ok
       THEN /\ avatar' = [avatar EXCEPT ![m] =
                    startVoice([@ EXCEPT !.playing = @ \cup {avatar[m].cyc}])]
            /\ UNCHANGED avIsSpeaking
       ELSE /\ avatar' = [avatar EXCEPT ![m] = startVoice(@)]
            /\ SetAvSpeaking(m, FALSE)
    /\ UNCHANGED <<ciState, mounts, avIsListening>>

\* source.onended of the buffer source started in cycle k.
SourceEnded(m, k) ==
    /\ k \in avatar[m].playing
    /\ avatar' = [avatar EXCEPT ![m].playing = @ \ {k}]
    /\ SetAvSpeaking(m, FALSE)
    /\ UNCHANGED <<ciState, mounts, avIsListening>>

----------------------------------------------------------------------------
\* ChatInterface

avState == <<mounts, avatar, avIsListening, avIsSpeaking>>

\* The effect with dependencies [recognitionActive, isVoiceMode], run by the
\* render that follows a change of either: its cleanup stops the current
\* recognition object and cancels speech synthesis when an utterance was
\* stored, then a new recognition object is created whose handlers close over
\* the values of this render.
RecognitionEffect(rA, vm) ==
    IF <<rA, vm>> # <<recognitionActive, isVoiceMode>>
    THEN /\ recognitionRef' = [rA |-> rA, vm |-> vm]
         /\ synth' = IF speechSynthesisRef THEN "idle" ELSE synth
    ELSE UNCHANGED <<recognitionRef, synth>>

\* processMessage without its test of messageText.trim().
processMessageNoTrim(messageText, vm) ==
    /\ nextId <= MaxRequests
    /\ messages' = Append(messages,
           [isUser |-> TRUE, content |-> messageText, req |-> nextId])
    /\ inputValue' = ""
    /\ chat' = chat \cup {[id |-> nextId, vm |-> vm, mount |-> mounted]}
    /\ nextId' = nextId + 1

\* processMessage up to the fetch of getLLMResponse; vm is the isVoiceMode of
\* the render whose processMessage is called.
processMessage(messageText, vm) ==
    IF Trim(messageText) = ""
    THEN UNCHANGED <<messages, inputValue, chat, nextId>>
    ELSE /\ nextId <= MaxRequests
         /\ messages' = Append(messages,
                [isUser |-> TRUE, content |-> messageText, req |-> nextId])
         /\ inputValue' = ""
         /\ chat' = chat \cup {[id |-> nextId, vm |-> vm, mount |-> mounted]}
         /\ nextId' = nextId + 1

\* The text input, rendered only while voice mode is off.
InputChange(v) ==
    /\ ~isVoiceMode
    /\ v # inputValue
    /\ inputValue' = v
    /\ UNCHANGED <<messages, isVoiceMode, isListening, isSpeaking, recognitionActive,
                   recognitionRef, speechSynthesisRef, synth, recog, chat, nextId,
                   errorToasts, avState>>

\* handleSendMessage (send button or Enter in the text input).
handleSendMessage ==
    /\ ~isVoiceMode
    /\ processMessage(inputValue, isVoiceMode)
    /\ UNCHANGED <<isVoiceMode, isListening, isSpeaking, recognitionActive,
                   recognitionRef, speechSynthesisRef, synth, recog, errorToasts, avState>>

\* getLLMResponse: the text that the settled /chat fetch yields.
getLLMResponse(outcome) ==
    CASE outcome = "assistant" -> "assistant"
      [] outcome = "empty" -> "No response from server."
      [] outcome = "error" -> "Sorry, server is unreachable."

\* The rest of processMessage with setMessages([...messages, aiMessage]) in
\* place of the functional update: messages is the list of the render that
\* called processMessage, with the user message of the request at its end.
ChatSettlesStale(r, outcome) ==
    /\ r \in chat
    /\ chat' = chat \ {r}
    /\ LET sent == CHOOSE i \in 1..Len(messages) :
                        messages[i].isUser /\ messages[i].req = r.id
       IN messages' = Append(SubSeq(messages, 1, sent),
               [isUser |-> FALSE, content |-> getLLMResponse(outcome), req |-> r.id])
    /\ IF r.vm
       THEN /\ speechSynthesisRef' = TRUE
            /\ synth' = "pending"
       ELSE UNCHANGED <<speechSynthesisRef, synth>>
    /\ UNCHANGED <<inputValue, isVoiceMode, isListening, isSpeaking, recognitionActive,
                   recognitionRef, recog, nextId, errorToasts, avState>>

\* The /chat fetch of request r settles: the rest of processMessage.
ChatSettles(r, outcome) ==
    /\ r \in chat
    /\ chat' = chat \ {r}
    /\ messages' = Append(messages,
            [isUser |-> FALSE, content |-> getLLMResponse(outcome), req |-> r.id])
    /\ IF r.vm
       THEN /\ speechSynthesisRef' = TRUE      \* speakText
            /\ synth' = "pending"
       ELSE UNCHANGED <<speechSynthesisRef, synth>>
    /\ UNCHANGED <<inputValue, isVoiceMode, isListening, isSpeaking, recognitionActive,
                   recognitionRef, recog, nextId, errorToasts, avState>>

\* toggleVoiceMode from text mode with a ChatAvatar whose effect opens no
\* capture while the capture loop of an earlier instance has not come to rest.
EnableVoiceModeUnlessBusy ==
    /\ ~isVoiceMode
    /\ mounts < MaxMounts
    /\ Sessions < MaxSessions
    /\ isVoiceMode' = TRUE
    /\ recognitionActive' = TRUE
    /\ isListening' = TRUE
    /\ recog' = [recog EXCEPT ![mounts + 1] =
            [rA |-> recognitionRef.rA, vm |-> recognitionRef.vm, phase |-> "stopping"]]
    /\ RecognitionEffect(TRUE, TRUE)
    /\ mounts' = mounts + 1
    /\ avatar' = [avatar EXCEPT ![mounts + 1] =
            IF \E n \in Mounts : avatar[n].pc \notin {"none", "idle"}
            THEN [@ EXCEPT !.pc = "idle", !.cyc = 1]
            ELSE startVoice(@)]
    /\ avIsListening' = FALSE
    /\ avIsSpeaking' = FALSE
    /\ UNCHANGED <<messages, inputValue, isSpeaking, speechSynthesisRef, chat, nextId,
                   errorToasts>>

\* toggleVoiceMode from text mode, with the render it causes: the recognition
\* object of recognitionRef is started by the handler and stopped by the
\* cleanup of the recognition effect; ChatAvatar is mounted and its effect
\* calls startVoice.
EnableVoiceMode ==
    /\ ~isVoiceMode
    /\ mounts < MaxMounts
    /\ Sessions < MaxSessions
    /\ isVoiceMode' = TRUE
    /\ recognitionActive' = TRUE
    /\ isListening' = TRUE
    /\ recog' = [recog EXCEPT ![mounts + 1] =
            [rA |-> recognitionRef.rA, vm |-> recognitionRef.vm, phase |-> "stopping"]]
    /\ RecognitionEffect(TRUE, TRUE)
    /\ mounts' = mounts + 1
    /\ avatar' = [avatar EXCEPT ![mounts + 1] = startVoice(@)]
    /\ avIsListening' = FALSE
    /\ avIsSpeaking' = FALSE
    /\ UNCHANGED <<messages, inputValue, isSpeaking, speechSynthesisRef, chat, nextId,
                   errorToasts>>

\* toggleVoiceMode from voice mode, with the render it causes: ChatAvatar is
\* unmounted and the cleanup of its effect calls stopVoice.
DisableVoiceMode ==
    /\ isVoiceMode
    /\ isVoiceMode' = FALSE
    /\ recognitionActive' = FALSE
    /\ isListening' = FALSE
    /\ isSpeaking' = IF speechSynthesisRef THEN FALSE ELSE isSpeaking
    /\ RecognitionEffect(FALSE, FALSE)
    /\ avatar' = [avatar EXCEPT ![mounts] = stopVoice(@)]
    /\ avIsListening' = FALSE
    /\ avIsSpeaking' = FALSE
    /\ UNCHANGED <<messages, inputValue, speechSynthesisRef, recog, chat, nextId,
                   errorToasts, mounts>>

\* recognition.onresult of the recognition object started by enable m.  The
\* object was stopped by the effect cleanup right after its start; the Web
\* Speech API lets stop() return one result for the audio received so far.
RecognitionResult(m, transcript) ==
    /\ recog[m].phase = "stopping"
    /\ recog' = [recog EXCEPT ![m].phase = "resulted"]
    /\ processMessage(transcript, recog[m].vm)
    /\ UNCHANGED <<isVoiceMode, isListening, isSpeaking, recognitionActive,
                   recognitionRef, speechSynthesisRef, synth, errorToasts, avState>>

\* recognition.onerror, with the render it causes.
RecognitionError(m) ==
    /\ recog[m].phase \in {"stopping", "resulted"}
    /\ recog' = [recog EXCEPT ![m].phase = "errored"]
    /\ isListening' = FALSE
    /\ recognitionActive' = FALSE
    /\ errorToasts' = errorToasts + 1
    /\ RecognitionEffect(FALSE, isVoiceMode)
    /\ UNCHANGED <<messages, inputValue, isVoiceMode, isSpeaking, speechSynthesisRef,
                   chat, nextId, avState>>

\* recognition.onend: the handler restarts recognition (after 100 ms) only
\* when its closure holds recognitionActive and isVoiceMode both true, which
\* no started object's closure does (see OnEndClosure).
RecognitionEnd(m) ==
    /\ recog[m].phase \in {"stopping", "resulted", "errored"}
    /\ recog' = [recog EXCEPT ![m].phase =
            IF recog[m].rA /\ recog[m].vm THEN "restarted" ELSE "ended"]
    /\ UNCHANGED <<messages, inputValue, isVoiceMode, isListening, isSpeaking,
                   recognitionActive, recognitionRef, speechSynthesisRef, synth, chat,
                   nextId, errorToasts, avState>>

----------------------------------------------------------------------------
\* The user toggles voice mode, and the events of the ChatAvatar instances.
NextVoice ==
    \/ EnableVoiceMode
    \/ DisableVoiceMode
    \/ \E m \in Mounts, ok \in BOOLEAN : GetUserMediaSettles(m, ok)
    \/ \E m \in Mounts, k \in Cycles : AutoStopTimer(m, k)
    \/ \E m \in Mounts, size \in {0, 1} : OnStop(m, size)
    \/ \E m \in Mounts, o \in {"audio", "noaudio", "fail"} : VoiceSettles(m, o)
    \/ \E m \in Mounts, ok \in BOOLEAN : PlayAudioDecoded(m, ok)
    \/ \E m \in Mounts, k \in Cycles : SourceEnded(m, k)

\* The user toggles voice mode, types and sends, and the events of
\* ChatInterface's recognition objects and /chat requests.
NextChat ==
    \/ EnableVoiceMode
    \/ DisableVoiceMode
    \/ \E v \in Texts : InputChange(v)
    \/ handleSendMessage
    \/ \E r \in chat, o \in {"assistant", "empty", "error"} : ChatSettles(r, o)
    \/ \E m \in Mounts, t \in {" ", "hi"} : RecognitionResult(m, t)
    \/ \E m \in Mounts : RecognitionError(m)
    \/ \E m \in Mounts : RecognitionEnd(m)

\* ChatAvatar reads and writes none of ChatInterface's state but isVoiceMode
\* (through its mounting), and ChatInterface none of ChatAvatar's: Spec is
\* the application seen from ChatAvatar, ChatSpec the application seen from
\* ChatInterface.
Spec == Init /\ [][NextVoice]_vars

ChatSpec == Init /\ [][NextChat]_vars

\* The browser runs every timer that is due and runs every task a stopped
\* recorder has queued; nothing makes the network answer or the user act.
Fairness ==
    /\ \A m \in Mounts : WF_vars(\E k \in Cycles : AutoStopTimer(m, k))
    /\ \A m \in Mounts : WF_vars(\E size \in {0, 1} : OnStop(m, size))

FairSpec == Spec /\ Fairness

----------------------------------------------------------------------------
\* Facts about ChatInterface the model rests on (invariants of ChatSpec).

\* speakText is never called: processMessage is called by handleSendMessage,
\* whose input is rendered only while voice mode is off, and by the onresult
\* handler of a recognition object that was started, and toggleVoiceMode
\* starts the object created by a render in which isVoiceMode was false.  So
\* no utterance exists and utterance.onstart/onend/onerror never run.
SpeakTextNeverCalled == synth = "idle" /\ ~speechSynthesisRef /\ ~isSpeaking

\* The onend handler of a started recognition object never restarts
\* recognition: its closure never holds recognitionActive and isVoiceMode.
OnEndClosure == \A m \in Mounts : ~(recog[m].rA /\ recog[m].vm)

----------------------------------------------------------------------------
\* Predicates of the claims

Recording(m) == avatar[m].pc = "rec"
Playing(m) == avatar[m].playing # {}
VoiceInFlight(m) == avatar[m].pc = "voice"
Unmounted(m) == m <= mounts /\ m # mounted

----------------------------------------------------------------------------
\* C1: in no reachable state is a recorder recording while a reply audio is
\* being played (started and not ended); the next capture is opened only
\* after the previous reply's playback has ended.
C1_NoCaptureDuringPlayback ==
    \A m \in Mounts, n \in Mounts : ~(Recording(m) /\ Playing(n))

\* C2: a /voice response that arrives after voice mode was disabled, for a
\* request dispatched before the disable, is discarded: playAudio is not
\* started, no flag changes and startVoice is not called.
C2_StaleResponseDiscarded ==
    [][\A m \in Mounts :
          (VoiceInFlight(m) /\ avatar[m].sentMounted /\ Unmounted(m)
             /\ ~VoiceInFlight(m)')
          => /\ avatar'[m].pc \notin {"decode", "gum"}
             /\ avatar'[m].playing = avatar[m].playing
             /\ avIsListening' = avIsListening /\ avIsSpeaking' = avIsSpeaking]_vars

\* C3: when disabling voice mode returns, no recorder is recording, every
\* acquired stream has its tracks stopped and no buffer source is playing.
C3_DisableReleasesAll ==
    [][(isVoiceMode /\ ~isVoiceMode')
          => \A m \in Mounts :
                /\ ~Recording(m)'
                /\ avatar'[m].live = {}
                /\ ~Playing(m)']_vars

\* C4: when voice mode is disabled during the first capture of an instance
\* (getUserMedia pending, or the recorder's stop not yet delivered), that
\* capture's completion is ignored: no recorder starts and no round trip is
\* dispatched for it.
C4_StaleCaptureIgnored ==
    [][\A m \in Mounts :
          (Unmounted(m) /\ avatar[m].cyc = 1)
          => /\ (avatar[m].pc = "gum" => ~Recording(m)')
             /\ (avatar[m].pc = "stopped" => ~VoiceInFlight(m)')]_vars

\* C5: at most one round trip is in flight in every reachable state.
C5_OneRoundTripInFlight ==
    Cardinality({m \in Mounts : VoiceInFlight(m)}) + Cardinality(chat) <= 1

\* C6: a capture that ends with zero captured audio triggers no round trip:
\* every blob sent to /voice holds audio.
C6_NoRoundTripForEmptyCapture ==
    \A m \in Mounts : VoiceInFlight(m) => Sum(avatar[m].audioChunksRef) > 0

\* C7: every capture session that was started ends with its recording: no
\* instance stays forever with its recorder recording or with the recorder's
\* stop undelivered; leaving these is the onstop handler building the blob.
C7_CaptureTerminates ==
    \A m \in Mounts : []<>(avatar[m].pc \notin {"rec", "stopped"})

\* C7 witness: a recorder of the mounted instance, which nothing but its timer
\* can have stopped, was stopped by the timer and delivered its recording.
C7_Witness ==
    \E m \in Mounts :
        /\ m = mounted
        /\ VoiceInFlight(m)
        /\ avatar[m].cyc \notin avatar[m].timers

\* C8: when the response of /chat request N arrives while a later request is
\* outstanding, it is discarded: it appends nothing and speaks nothing.
C8_StaleChatResponseDiscarded ==
    [][\A r \in chat :
          ((\E r2 \in chat : r2.id > r.id) /\ r \notin chat')
          => (messages' = messages /\ synth' = synth)]_vars

\* C9: in continuous mode, while the reply of a turn is played the
\* conversation is Speaking and not Capturing (capture is re-entered only
\* after the playback has ended), and the turn appended exactly one Exchange
\* to the history.
C9_TurnSequence ==
    \A m \in Mounts :
        (m = mounted /\ Playing(m))
        => /\ ~avIsListening
           /\ avatar[m].pc \notin {"gum", "rec"}
           /\ Len(messages) = Len(<<Greeting>>) + 1

\* C10: in continuous mode a failed round trip returns to Capturing, appends
\* nothing to the history and emits exactly one error notification.
C10_RoundTripFailure ==
    [][\A m \in Mounts :
          (m = mounted /\ VoiceSettles(m, "fail"))
          => /\ avatar'[m].pc = "gum"
             /\ messages' = messages
             /\ errorToasts' = errorToasts + 1]_vars

\* C11: when the capture device cannot be acquired on enabling voice mode
\* (here: the getUserMedia of the first startVoice of the mounted instance is
\* rejected), the conversation is left Idle (voice mode flag false, not
\* listening, recognition not marked active) and one error is shown.
C11_DeviceUnavailable ==
    [][\A m \in Mounts :
          (m = mounted /\ avatar[m].cyc = 1 /\ GetUserMediaSettles(m, FALSE))
          => /\ ~isVoiceMode' /\ ~isListening' /\ ~recognitionActive'
             /\ errorToasts' = errorToasts + 1]_vars

\* C12: every opened capture session delivers exactly one terminal event.
\* audioChunksRef is emptied when a session opens and receives the blob of
\* the task that fires dataavailable and stop: it is empty while the session
\* records or its stop is undelivered and holds exactly one blob afterwards
\* (never two); a timer removed from the pending timers that belongs to an
\* earlier session leaves the current session as it is; and the event is
\* delivered: again and again every opened session has delivered its blob.
SessionOpen(m) == avatar[m].pc \in {"rec", "stopped"}

TerminalEvents(m) == Len(avatar[m].audioChunksRef)

C12_OneTerminalEvent ==
    /\ [](\A m \in Mounts :
            TerminalEvents(m) =
                IF avatar[m].mediaRecorderRef = 0 \/ SessionOpen(m) THEN 0 ELSE 1)
    /\ [][\A m \in Mounts, k \in Cycles :
            (k \in avatar[m].timers /\ k \notin avatar'[m].timers /\ k # avatar[m].cyc)
            => avatar'[m].pc = avatar[m].pc]_vars
    /\ \A m \in Mounts : []<>(~SessionOpen(m))

\* C12 witness: the second session of an instance is recording; both
\* stopVoice and the timer have acted on the first (its stream was released
\* and its timer is no longer pending).
C12_Witness ==
    \E m \in Mounts :
        /\ avatar[m].cyc = 2 /\ Recording(m)
        /\ 1 \notin avatar[m].live
        /\ avatar[m].timers = {2}

\* C13: a playback failure acts on the conversation as a playback completion
\* does: when playAudio of the mounted instance leaves its decoding without
\* having started a source, isSpeaking is false afterwards (as after
\* source.onended) and the next capture is opened (getUserMedia is called).
C13_PlaybackFailure ==
    [][\A m \in Mounts :
          (/\ m = mounted /\ avatar[m].pc = "decode"
           /\ isVoiceMode' /\ avatar'[m].pc # "decode"
           /\ avatar'[m].playing = avatar[m].playing)
          => /\ ~avIsSpeaking'
             /\ avatar'[m].pc = "gum" /\ avatar'[m].cyc = avatar[m].cyc + 1]_vars

\* C13 witness: playAudio of the mounted instance has set isSpeaking and
\* awaits decodeAudioData, which may reject.
C13_Witness ==
    \E m \in Mounts : m = mounted /\ avatar[m].pc = "decode" /\ avIsSpeaking

\* C14: at most one playback is active in every reachable state: over all
\* ChatAvatar instances at most one buffer source has started and not ended.
C14_OnePlayback ==
    \A m \in Mounts, n \in Mounts :
        \A k \in avatar[m].playing, j \in avatar[n].playing : m = n /\ k = j

\* C15: a failed /chat round trip is reported, not recorded: when the fetch
\* of a request fails, no entry is appended to messages, nothing is spoken
\* and one error is shown.
C15_FailureNotRecorded ==
    [][\A r \in chat :
          ChatSettles(r, "error")
          => /\ messages' = messages
             /\ synth' = synth
             /\ errorToasts' = errorToasts + 1]_vars

C17_OneCaptureSession ==
    \A m \in Mounts, n \in Mounts : (Recording(m) /\ Recording(n)) => m = n

\* C18: the conversation history is append-only and ordered: every step
\* leaves messages unchanged or appends one entry to its end, and every
\* assistant entry stands after the user message of its request.
C18_AppendOnly ==
    /\ [][/\ Len(messages') \in {Len(messages), Len(messages) + 1}
          /\ SubSeq(messages', 1, Len(messages)) = messages]_vars
    /\ [](\A j \in 1..Len(messages) :
            (~messages[j].isUser /\ messages[j] # Greeting)
            => \E i \in 1..(j - 1) :
                   messages[i].isUser /\ messages[i].req = messages[j].req)

\* C18 witness: the reply to the first request was appended after the user
\* message of the second request and after the reply to the second.
C18_Witness ==
    /\ Len(messages) = 5
    /\ messages[2].isUser /\ messages[2].req = 1
    /\ messages[3].isUser /\ messages[3].req = 2
    /\ ~messages[4].isUser /\ messages[4].req = 2
    /\ ~messages[5].isUser /\ messages[5].req = 1

\* C19: closing a capture session is idempotent and unconditional: for every
\* state an instance can be in (recorder recording, inactive or never
\* created), stopVoice called twice leaves what stopVoice called once leaves,
\* in which the recorder does not record, the stream of streamRef is
\* released and streamRef is cleared; and the stopVoice of the effect cleanup
\* leaves isListening false.
C19_StopVoiceIdempotent ==
    /\ [](\A m \in Mounts :
            LET once == stopVoice(avatar[m])
            IN /\ stopVoice(once) = once
               /\ once.pc # "rec"
               /\ once.streamRef = 0
               /\ avatar[m].streamRef \notin once.live)
    /\ [][(isVoiceMode /\ ~isVoiceMode')
            => /\ avatar'[mounts] = stopVoice(avatar[mounts])
               /\ ~avIsListening']_vars

\* C19 witness: stopVoice has closed an instance whose recorder was
\* recording and an instance whose recorder was never created.
C19_Witness ==
    \E m \in Mounts, n \in Mounts :
        /\ Unmounted(m) /\ avatar[m].pc = "stopped"
        /\ avatar[m].streamRef = 0 /\ avatar[m].live = {}
        /\ Unmounted(n) /\ avatar[n].pc = "gum" /\ avatar[n].mediaRecorderRef = 0

\* C20: when a recognition session ends (onend) while voice mode is on and
\* recognition is marked active, recognition is started again; when it ends
\* while voice mode is off, it is not.
C20_OnEndRestarts ==
    [][\A m \in Mounts :
          RecognitionEnd(m)
          => /\ (isVoiceMode /\ recognitionActive) => recog'[m].phase = "restarted"
             /\ ~isVoiceMode => recog'[m].phase = "ended"]_vars

\* C21: the reply is spoken if and only if the conversation is in voice
\* mode: when the /chat fetch of a request settles, speakText is called for
\* it exactly when the request was dispatched while voice mode was on (for a
\* recognised transcript; typed messages are sent in text mode only).
C21_SpokenIffVoiceMode ==
    [][\A r \in chat :
          (r \notin chat')
          => ((r.mount # 0) <=> (speechSynthesisRef' /\ synth' = "pending"))]_vars

\* A recognition object that is started and not stopped: toggleVoiceMode's
\* start is undone by the effect cleanup in the same task, so an object runs
\* only after its onend has restarted it.
RecognitionRunning(m) == recog[m].phase = "restarted"

\* C22: in every reachable state isListening implies that recognitionActive
\* is true and that a recognition session is started and running.
C22_ListeningMeansStarted ==
    isListening => (recognitionActive /\ \E m \in Mounts : RecognitionRunning(m))

\* C23: in every reachable state a ChatAvatar instance has at most one
\* acquired stream whose tracks were not stopped.
C23_OneLiveStream ==
    \A m \in Mounts : Cardinality(avatar[m].live) <= 1

\* C24: in every reachable state in which a reply playback of the mounted
\* ChatAvatar is audible (a source has started and not ended), isSpeaking
\* is true.
C24_AudibleMeansSpeaking ==
    \A m \in Mounts : (m = mounted /\ Playing(m)) => avIsSpeaking

\* C25: an utterance that is empty after trim changes nothing: when
\* handleSendMessage runs on such an input value, or onresult delivers such
\* a transcript, no message is appended, no request is dispatched, nothing
\* is spoken and the input value and all flags stay as they are.
C25_BlankChangesNothing ==
    [][(\/ (Trim(inputValue) = "" /\ handleSendMessage)
        \/ \E m \in Mounts, t \in Texts : Trim(t) = "" /\ RecognitionResult(m, t))
       => UNCHANGED <<messages, inputValue, chat, nextId, synth, speechSynthesisRef,
                      isVoiceMode, isListening, isSpeaking, recognitionActive,
                      errorToasts>>]_vars

\* C25 witness: a recognition object has delivered its result, a transcript
\* of blanks, and no message was appended and no request dispatched.
C25_Witness ==
    \E m \in Mounts :
        /\ recog[m].phase = "resulted"
        /\ messages = <<Greeting>> /\ chat = {} /\ nextId = 1

====
